---- MODULE Spec2Model ----
(***************************************************************************)
(* Model of the admission webhook dispatch core of                         *)
(* extensions/pkg/webhook/handler.go: the HandlerBuilder (WithMutator,     *)
(* WithValidator, WithPredicates, Build) and the request path              *)
(* (handler.Handle and handle).                                            *)
(***************************************************************************)
EXTENDS Integers, Sequences, FiniteSets, TLC

\* ------------------------------------------------------------------ bounds
\* Number of With... calls made on the builder before Build.
MaxCalls == 2
\* Largest value of the integer field of a resource.
MaxSize == 1

\* ------------------------------------------------------- values and types
\* runtime.APIVersionInternal
APIVersionInternal == "__internal"

\* HTTP status codes used by the handler.
StatusOK == 200
StatusBadRequest == 400
StatusInternalServerError == 500

GVK(g, v, k) == [Group |-> g, Version |-> v, Kind |-> k]

\* Go types handed to the builder as prototypes.  "Opaque" is a
\* runtime.Object without object metadata, "Unregistered" is unknown to the
\* scheme.
GoTypes == {"WidgetV1", "WidgetInternal", "Opaque", "Unregistered"}

\* apiutil.GVKForObject: the scheme's type-to-identifier resolution.
SchemeKnows(gotype) == gotype # "Unregistered"

GVKForObject(gotype) ==
    CASE gotype = "WidgetV1"       -> GVK("apps", "v1", "Widget")
      [] gotype = "WidgetInternal" -> GVK("apps", APIVersionInternal, "Widget")
      [] OTHER                     -> GVK("apps", "v1", "Opaque")

\* A prototype is a pointer to an instance of a Go type; ptr is the identity
\* of the instance (the With... call that passed it).
Prototype(gotype, ptr) == [gotype |-> gotype, ptr |-> ptr]

\* Kinds carried by requests.
RequestKinds ==
    { GVK("apps", "v1", "Widget"), GVK("apps", "v2", "Widget"),
      GVK("apps", "v1", "Opaque") }

\* ---------------------------------------------------------------- handlers
\* Dynamic types of the values stored as Mutator.  "plainMutator" has only
\* Mutate; "mutatorWithValidate" is a Mutator whose type also has a Validate
\* method; "validationWrapper" is what hybridValidator returns.
PlainMutator == [impl |-> "plainMutator", ptr |-> 0, inner |-> "none"]
MutatorWithValidate == [impl |-> "mutatorWithValidate", ptr |-> 0, inner |-> "none"]
Mutators == {PlainMutator, MutatorWithValidate}
Validators == {"V1"}

\* hybridValidator: wraps a Validator in a freshly allocated validationWrapper
\* that embeds it; ptr is the identity of the allocation.
hybridValidator(validator, ptr) ==
    [impl |-> "validationWrapper", ptr |-> ptr, inner |-> validator]

\* The type assertion m.(Validator): true when the dynamic type of m has a
\* Validate method.  validationWrapper embeds Validator, so it has one.
ImplementsValidator(m) == m.impl \in {"validationWrapper", "mutatorWithValidate"}

\* Registered through WithValidator.
ViaValidatorAdapter(m) == m.impl = "validationWrapper"

\* ---------------------------------------------------------------- predicates
Predicates == {"SizePositive", "TagsNotNil"}

\* The argument lists of a WithPredicates call.
PredicateLists ==
    { <<p>> : p \in Predicates } \cup
    { <<"SizePositive", "TagsNotNil">>, <<"TagsNotNil", "SizePositive">> }

\* ------------------------------------------------ resources and raw bytes
\* A slice field: Go distinguishes a nil slice from an empty one.
NilTags == [isNil |-> TRUE, elems |-> <<>>]
EmptyTags == [isNil |-> FALSE, elems |-> <<>>]
OneTag == [isNil |-> FALSE, elems |-> <<"a">>]

\* A decoded resource: its Go type, an integer field, a slice field and an
\* embedded extension whose bytes are either valid JSON ("ok") or not ("bad").
Object(gotype, size, tags, ext) ==
    [gotype |-> gotype, size |-> size, tags |-> tags, ext |-> ext]

\* The absent old object (a nil runtime.Object).
NilObject == Object("nil", 0, NilTags, "ok")

\* Raw bytes of a request: empty, not decodable, or a JSON document with the
\* keys "size" and "tags" (tags is the JSON text of the slice).
RawEmpty == [form |-> "empty", size |-> 0, tags |-> "null"]
RawMalformed == [form |-> "malformed", size |-> 0, tags |-> "null"]
RawJSON(size, tags) == [form |-> "json", size |-> size, tags |-> tags]

NewRaws ==
    {RawEmpty, RawMalformed} \cup
    { RawJSON(s, t) : s \in 0..MaxSize, t \in {"null", "[]"} }
OldRaws == {RawEmpty, RawMalformed, RawJSON(0, "null")}

\* decoder.Decode(raw, nil, obj): fails on bytes that are no document,
\* otherwise fills obj from the document.
DecodeFails(raw) == raw.form # "json"

Decode(raw, obj) ==
    [obj EXCEPT !.size = raw.size,
                !.tags = IF raw.tags = "null" THEN NilTags ELSE EmptyTags]

\* meta.Accessor(obj): fails for an object without object metadata.
AccessorFails(obj) == obj.gotype = "Opaque"

\* equality.Semantic.DeepEqual: field by field, a nil slice equal to an empty
\* one.
SemanticDeepEqual(a, b) ==
    /\ a.gotype = b.gotype
    /\ a.size = b.size
    /\ a.tags.elems = b.tags.elems
    /\ a.ext = b.ext

\* json.Marshal: fails on an extension that is not valid JSON; a nil slice is
\* written as null, an empty one as [].
MarshalFails(obj) == obj.ext = "bad"

TagsJSON(tags) ==
    IF tags.isNil THEN "null"
    ELSE IF tags.elems = <<>> THEN "[]" ELSE "[a]"

Marshal(obj) == RawJSON(obj.size, TagsJSON(obj.tags))

\* jsonpatch.CreatePatch as used by admission.PatchResponseFromRaw: one
\* replace operation per key whose value differs, here as a map from the path
\* of the operation to the value it writes.
ChangedPaths(a, b) ==
    (IF a.size # b.size THEN {"/size"} ELSE {}) \cup
    (IF a.tags # b.tags THEN {"/tags"} ELSE {})

CreatePatch(a, b) ==
    [p \in ChangedPaths(a, b) |-> IF p = "/size" THEN <<b.size>> ELSE <<b.tags>>]

\* Applying a patch document to a serialized resource.
ApplyPatch(doc, patch) ==
    [doc EXCEPT
        !.size = IF "/size" \in DOMAIN patch THEN patch["/size"][1] ELSE @,
        !.tags = IF "/tags" \in DOMAIN patch THEN patch["/tags"][1] ELSE @]

\* ---------------------------------------------------------------- responses
NoPatch == << >>

\* admission.ValidationResponse(true, "")
ValidationResponse ==
    [allowed |-> TRUE, code |-> StatusOK, reason |-> "", patched |-> FALSE,
     patch |-> NoPatch]

\* admission.Errored(code, err)
Errored(code, msg) ==
    [allowed |-> FALSE, code |-> code, reason |-> msg, patched |-> FALSE,
     patch |-> NoPatch]

\* admission.PatchResponseFromRaw(original, current)
PatchResponseFromRaw(original, current) ==
    [allowed |-> TRUE, code |-> StatusOK, reason |-> "", patched |-> TRUE,
     patch |-> CreatePatch(original, current)]

NoResponse ==
    [allowed |-> FALSE, code |-> 0, reason |-> "pending", patched |-> FALSE,
     patch |-> NoPatch]

IsAllow(r) == r.allowed /\ ~r.patched
IsAllowWithPatch(r) == r.allowed /\ r.patched
IsDeny(r) == ~r.allowed /\ r # NoResponse

\* ----------------------------------------------------------------- state
VARIABLES
    b,          \* the HandlerBuilder: mutatorMap and predicates
    calls,      \* number of With... calls made so far
    built,      \* "no", "ok" (Build returned a handler) or "failed"
    buildErr,   \* the Go type named by Build's error, "" when none
    h,          \* the handler Build returned: typesMap, mutatorMap, predicates
    protos,     \* the fields of the prototype instances, by pointer
    pc,         \* position of the request being handled
    req,        \* the admission request: Kind, Object.Raw, OldObject.Raw
    t,          \* the prototype Handle resolved
    m,          \* the Mutator Handle resolved
    obj,        \* the decoded new object
    oldObj,     \* the decoded old object, NilObject when absent
    newObj,     \* the clone handed to Mutate
    passedOld,  \* the old object Mutate was called with
    mutErr,     \* the error Mutate returned, "" for nil or not yet returned
    ctxDone,    \* the context was cancelled or timed out during the Mutate call
    trace,      \* the steps taken for the request, in order
    resp,       \* the admission response, NoResponse until the request ends
    workers     \* the locals of the concurrent Handle invocations, by goroutine

builderVars == <<b, calls, built, buildErr, h>>
requestVars ==
    <<pc, req, t, m, obj, oldObj, newObj, passedOld, mutErr, ctxDone, trace, resp>>
vars == <<b, calls, built, buildErr, h, protos, pc, req, t, m, obj, oldObj, newObj,
          passedOld, mutErr, ctxDone, trace, resp, workers>>

\* A nil error.
NoError == ""

\* Maps with a growing key set.
EmptyMap == << >>
Put(f, k, v) == [x \in DOMAIN f \cup {k} |-> IF x = k THEN v ELSE f[x]]
Has(f, k) == k \in DOMAIN f

\* The fields of an empty instance, as passed to the builder.
ZeroFields == [size |-> 0, tags |-> NilTags]

\* t.DeepCopyObject(): a new instance with the fields of the prototype.
DeepCopyPrototype(tt) ==
    Object(tt.gotype, protos[tt.ptr].size, protos[tt.ptr].tags, "ok")

\* The pointer of an object allocated for the request being handled.
FreshPtr == 0

\* The decoder writing into the registered prototype itself.
DecodeTargetPrototype(tt) == tt.ptr

\* handle, lines 161 and 179: the object the decoder writes into is the copy
\* t.DeepCopyObject() returned, a new allocation.
DecodeTarget(tt) == FreshPtr

\* The prototype instances after the decoder wrote o through the pointer.
WriteThrough(ps, ptr, o) ==
    IF ptr \in DOMAIN ps
    THEN [ps EXCEPT ![ptr] = [size |-> o.size, tags |-> o.tags]]
    ELSE ps

NoPrototype == Prototype("nil", 0)
NoMutator == [impl |-> "nil", ptr |-> 0, inner |-> "none"]
NoRequest == [Kind |-> GVK("", "", ""), Raw |-> RawEmpty, OldRaw |-> RawEmpty]
NoHandler == [typesMap |-> EmptyMap, mutatorMap |-> EmptyMap, predicates |-> << >>]

\* NewBuilder
NewBuilder == [mutatorMap |-> EmptyMap, predicates |-> << >>]

\* The goroutines of the hosting server that call Handle.
Workers == {"w1", "w2"}

\* The locals of a Handle invocation that has not started.
IdleWorker ==
    [pc |-> "idle", req |-> NoRequest, t |-> NoPrototype, m |-> NoMutator,
     obj |-> NilObject, oldObj |-> NilObject, newObj |-> NilObject,
     effect |-> "none", mutErr |-> NoError, resp |-> NoResponse]

IdleRequest ==
    /\ pc = "idle"
    /\ req = NoRequest
    /\ t = NoPrototype
    /\ m = NoMutator
    /\ obj = NilObject
    /\ oldObj = NilObject
    /\ newObj = NilObject
    /\ passedOld = NilObject
    /\ mutErr = NoError
    /\ ctxDone = FALSE
    /\ trace = << >>
    /\ resp = NoResponse

Init ==
    /\ b = NewBuilder
    /\ calls = 0
    /\ built = "no"
    /\ buildErr = ""
    /\ h = NoHandler
    /\ protos = EmptyMap
    /\ workers = [w \in Workers |-> IdleWorker]
    /\ IdleRequest

\* ------------------------------------------------------------- the builder
\* b.mutatorMap[mutator] = append(b.mutatorMap[mutator], types...)
AppendTypes(mutatorMap, mutator, types) ==
    Put(mutatorMap, mutator,
        (IF Has(mutatorMap, mutator) THEN mutatorMap[mutator] ELSE << >>) \o types)

WithMutator(mutator, gotype) ==
    /\ calls < MaxCalls
    /\ calls' = calls + 1
    /\ b' = [b EXCEPT !.mutatorMap =
                AppendTypes(@, mutator, <<Prototype(gotype, calls + 1)>>)]
    /\ protos' = Put(protos, calls + 1, ZeroFields)
    /\ UNCHANGED <<built, buildErr, h>>
    /\ UNCHANGED requestVars
    /\ UNCHANGED workers

WithValidator(validator, gotype) ==
    /\ calls < MaxCalls
    /\ calls' = calls + 1
    /\ LET mutator == hybridValidator(validator, calls + 1)
       IN b' = [b EXCEPT !.mutatorMap =
                   AppendTypes(@, mutator, <<Prototype(gotype, calls + 1)>>)]
    /\ protos' = Put(protos, calls + 1, ZeroFields)
    /\ UNCHANGED <<built, buildErr, h>>
    /\ UNCHANGED requestVars
    /\ UNCHANGED workers

WithPredicates(predicates) ==
    /\ calls < MaxCalls
    /\ calls' = calls + 1
    /\ b' = [b EXCEPT !.predicates = @ \o predicates]
    /\ UNCHANGED <<built, buildErr, h, protos>>
    /\ UNCHANGED requestVars
    /\ UNCHANGED workers

\* buildTypesMap: the types of one mutator keyed by their GroupVersionKind, in
\* the order of the list; err names the first type the scheme cannot resolve.
RECURSIVE buildTypesMapFrom(_, _, _)
buildTypesMapFrom(types, i, typesMap) ==
    IF i > Len(types) THEN [err |-> "", typesMap |-> typesMap]
    ELSE IF ~SchemeKnows(types[i].gotype)
         THEN [err |-> types[i].gotype, typesMap |-> EmptyMap]
         ELSE buildTypesMapFrom(types, i + 1,
                  Put(typesMap, GVKForObject(types[i].gotype), types[i]))

\* buildTypesMap leaving out the types the scheme cannot resolve.
buildTypesMapSkipping(types) ==
    buildTypesMapFrom(SelectSeq(types, LAMBDA ty : SchemeKnows(ty.gotype)), 1, EmptyMap)

buildTypesMap(types) == buildTypesMapFrom(types, 1, EmptyMap)

\* The orders in which a range over a Go map may visit its keys.
RangeOrders(keys) ==
    { s \in [1..Cardinality(keys) -> keys] :
        \A i, j \in 1..Cardinality(keys) : i # j => s[i] # s[j] }

\* The merge writing the handler registry only.
MergeTypesHandlersOnly(hd, typesMap, mutator) ==
    [hd EXCEPT
        !.mutatorMap = [g \in DOMAIN @ \cup DOMAIN typesMap |->
                         IF g \in DOMAIN typesMap THEN mutator ELSE @[g]]]

\* The merge keeping the handler an identifier already has.
MergeTypesKeepFirstHandler(hd, typesMap, mutator) ==
    [hd EXCEPT
        !.typesMap = [g \in DOMAIN @ \cup DOMAIN typesMap |->
                         IF g \in DOMAIN typesMap THEN typesMap[g] ELSE @[g]],
        !.mutatorMap = [g \in DOMAIN @ \cup DOMAIN typesMap |->
                         IF g \in DOMAIN @ THEN @[g] ELSE mutator]]

\* for gvk, obj := range typesMap { h.typesMap[gvk] = obj; h.mutatorMap[gvk] = mutator }
MergeTypes(hd, typesMap, mutator) ==
    [hd EXCEPT
        !.typesMap = [g \in DOMAIN @ \cup DOMAIN typesMap |->
                         IF g \in DOMAIN typesMap THEN typesMap[g] ELSE @[g]],
        !.mutatorMap = [g \in DOMAIN @ \cup DOMAIN typesMap |->
                         IF g \in DOMAIN typesMap THEN mutator ELSE @[g]]]

\* The loop of Build over b.mutatorMap in the given order.
RECURSIVE BuildLoop(_, _, _, _)
BuildLoop(mutatorMap, order, i, hd) ==
    IF i > Len(order) THEN [err |-> "", handler |-> hd]
    ELSE LET r == buildTypesMap(mutatorMap[order[i]])
         IN IF r.err # "" THEN [err |-> r.err, handler |-> NoHandler]
            ELSE BuildLoop(mutatorMap, order, i + 1,
                           MergeTypes(hd, r.typesMap, order[i]))

BuildResult(builder, order) ==
    BuildLoop(builder.mutatorMap, order, 1,
              [typesMap |-> EmptyMap, mutatorMap |-> EmptyMap,
               predicates |-> builder.predicates])

Build ==
    /\ built = "no"
    /\ \E order \in RangeOrders(DOMAIN b.mutatorMap) :
          LET r == BuildResult(b, order)
          IN /\ built' = IF r.err = "" THEN "ok" ELSE "failed"
             /\ buildErr' = r.err
             /\ h' = r.handler
    /\ UNCHANGED <<b, calls, protos>>
    /\ UNCHANGED requestVars
    /\ UNCHANGED workers

\* --------------------------------------------------------- predicate chain
\* predicate.Generic of each predicate on the event built from the object.
Generic(p, o) ==
    CASE p = "SizePositive" -> o.size > 0
      [] p = "TagsNotNil"   -> ~o.tags.isNil
      [] OTHER              -> TRUE

\* extensionspredicate.EvalGeneric: the predicates in order, false at the
\* first one that returns false.
RECURSIVE EvalGenericFrom(_, _, _)
EvalGenericFrom(o, predicates, i) ==
    IF i > Len(predicates) THEN TRUE
    ELSE IF ~Generic(predicates[i], o) THEN FALSE
         ELSE EvalGenericFrom(o, predicates, i + 1)

EvalGeneric(o, predicates) == EvalGenericFrom(o, predicates, 1)

\* ---------------------------------------------------------- handler.Handle
\* The entries a range over the map may stop at: the internal-version entry
\* of the request's group and kind.
InternalMatches(f, kind) ==
    { g \in DOMAIN f :
        /\ g.Version = APIVersionInternal
        /\ g.Group = kind.Group
        /\ g.Kind = kind.Kind }

\* Lookup without the fallback to the internal version.
LookupExactOnly(f, kind) ==
    IF Has(f, kind) THEN {f[kind]} ELSE {}

\* Lookup whose fallback does not compare group and kind.
LookupAnyInternal(f, kind) ==
    IF Has(f, kind) THEN {f[kind]}
    ELSE { f[g] : g \in { x \in DOMAIN f : x.Version = APIVersionInternal } }

\* Lookup trying the internal version before the exact identifier.
LookupInternalFirst(f, kind) ==
    IF InternalMatches(f, kind) # {} THEN { f[g] : g \in InternalMatches(f, kind) }
    ELSE IF Has(f, kind) THEN {f[kind]} ELSE {}

\* The values the lookup of kind in f can yield: the exact entry, else any
\* internal-version entry of the same group and kind; empty when none.
Lookup(f, kind) ==
    IF Has(f, kind) THEN {f[kind]}
    ELSE { f[g] : g \in InternalMatches(f, kind) }

Respond(r) ==
    /\ resp' = r
    /\ pc' = "done"

\* Handle, lines 122-155: resolve the prototype and the mutator.
Handle(kind, raw, oldRaw) ==
    /\ built = "ok"
    /\ pc = "idle"
    /\ req' = [Kind |-> kind, Raw |-> raw, OldRaw |-> oldRaw]
    /\ trace' = <<"resolve">>
    /\ IF Lookup(h.typesMap, kind) = {} \/ Lookup(h.mutatorMap, kind) = {}
       THEN /\ Respond(Errored(StatusBadRequest, "unexpected request kind"))
            /\ UNCHANGED <<t, m>>
       ELSE /\ \E tt \in Lookup(h.typesMap, kind) : t' = tt
            /\ \E mm \in Lookup(h.mutatorMap, kind) : m' = mm
            /\ pc' = "decodeNew"
            /\ UNCHANGED resp
    /\ UNCHANGED <<obj, oldObj, newObj, passedOld, mutErr, ctxDone>>
    /\ UNCHANGED protos
    /\ UNCHANGED builderVars
    /\ UNCHANGED workers

\* handle, lines 160-173: decode the new object into a copy of the prototype
\* and get its accessor.
DecodeNew ==
    /\ pc = "decodeNew"
    /\ trace' = Append(trace, "decodeNew")
    /\ IF DecodeFails(req.Raw)
       THEN /\ Respond(Errored(StatusBadRequest, "could not decode request"))
            /\ UNCHANGED <<obj, protos>>
       ELSE /\ obj' = Decode(req.Raw, DeepCopyPrototype(t))
            /\ protos' = WriteThrough(protos, DecodeTarget(t), obj')
            /\ IF AccessorFails(obj')
               THEN Respond(Errored(StatusBadRequest, "could not get accessor"))
               ELSE /\ pc' = "decodeOld"
                    /\ UNCHANGED resp
    /\ UNCHANGED <<req, t, m, oldObj, newObj, passedOld, mutErr, ctxDone>>
    /\ UNCHANGED builderVars
    /\ UNCHANGED workers

\* The old object never taken as present.
HasOldObjectNever(r) == FALSE

\* The old object taken as present on every request.
HasOldObjectAlways(r) == TRUE

\* handle, line 178: len(req.OldObject.Raw) != 0
HasOldObject(r) == r.OldRaw.form # "empty"

\* handle, lines 175-184: decode the old object when its bytes are not empty.
DecodeOld ==
    /\ pc = "decodeOld"
    /\ IF HasOldObject(req)
       THEN /\ trace' = Append(trace, "decodeOld")
            /\ IF DecodeFails(req.OldRaw)
               THEN /\ Respond(Errored(StatusBadRequest, "could not decode old object"))
                    /\ UNCHANGED <<oldObj, protos>>
               ELSE /\ oldObj' = Decode(req.OldRaw, DeepCopyPrototype(t))
                    /\ protos' = WriteThrough(protos, DecodeTarget(t), oldObj')
                    /\ pc' = "filter"
                    /\ UNCHANGED resp
       ELSE /\ pc' = "filter"
            /\ UNCHANGED <<trace, oldObj, resp, protos>>
    /\ UNCHANGED <<req, t, m, obj, newObj, passedOld, mutErr, ctxDone>>
    /\ UNCHANGED builderVars
    /\ UNCHANGED workers

\* The predicates' verdict ignored.
ExemptNever(o, predicates) == FALSE

\* The predicates read from the builder when the request is handled.
ExemptLive(o, predicates) == ~EvalGeneric(o, b.predicates)

\* handle, line 187: !extensionspredicate.EvalGeneric(obj, predicates...)
Exempt(o, predicates) == ~EvalGeneric(o, predicates)

\* handle, lines 186-189: run the object through the predicates.
Filter ==
    /\ pc = "filter"
    /\ trace' = Append(trace, "filter")
    /\ IF Exempt(obj, h.predicates)
       THEN Respond(ValidationResponse)
       ELSE /\ pc' = "callMutate"
            /\ UNCHANGED resp
    /\ UNCHANGED <<req, t, m, obj, oldObj, newObj, passedOld, mutErr, ctxDone>>
    /\ UNCHANGED protos
    /\ UNCHANGED builderVars
    /\ UNCHANGED workers

\* handle, lines 191-193: clone the object and call m.Mutate(ctx, newObj, oldObj).
CallMutate ==
    /\ pc = "callMutate"
    /\ trace' = Append(trace, "mutate")
    /\ newObj' = obj
    /\ passedOld' = oldObj
    /\ pc' = "inMutate"
    /\ UNCHANGED <<req, t, m, obj, oldObj, mutErr, ctxDone, resp>>
    /\ UNCHANGED protos
    /\ UNCHANGED builderVars
    /\ UNCHANGED workers

\* The request's context is cancelled or its deadline passes while the Mutate
\* call it was passed to (line 193) is in progress.
Cancel ==
    /\ pc = "inMutate"
    /\ ~ctxDone
    /\ ctxDone' = TRUE
    /\ UNCHANGED <<pc, req, t, m, obj, oldObj, newObj, passedOld, mutErr, trace, resp>>
    /\ UNCHANGED protos
    /\ UNCHANGED builderVars
    /\ UNCHANGED workers

\* What a Mutate (or wrapped Validate) call may do to the object it is given.
Effects == {"none", "bumpSize", "emptyTags", "addTag", "badExt"}

ApplyEffect(effect, o) ==
    CASE effect = "bumpSize"  -> [o EXCEPT !.size = IF @ < MaxSize THEN @ + 1 ELSE 0]
      [] effect = "emptyTags" -> [o EXCEPT !.tags = EmptyTags]
      [] effect = "addTag"    -> [o EXCEPT !.tags = OneTag]
      [] effect = "badExt"    -> [o EXCEPT !.ext = "bad"]
      [] OTHER                -> o

\* The errors a Mutate call may return; "" is nil.  The context's error can
\* only be returned once the context is done.
MutateErrors(done) ==
    {NoError, "invalid size"} \cup (IF done THEN {"context canceled"} ELSE {})

\* The type assertion dropped: no handler taken as a validator.
IsValidatorNever(mm) == FALSE

\* handle, line 198: _, isValidator := m.(Validator)
IsValidator(mm) == ImplementsValidator(mm)

\* handle, lines 198-214: the response once Mutate returned nil.
ShapeResponse(mm, o, n) ==
    IF ~IsValidator(mm) /\ ~SemanticDeepEqual(o, n)
    THEN IF MarshalFails(o) \/ MarshalFails(n)
         THEN Errored(StatusInternalServerError, "json: error")
         ELSE PatchResponseFromRaw(Marshal(o), Marshal(n))
    ELSE ValidationResponse

\* The error of Mutate dropped.
MutateFailedIgnored(err) == ValidationResponse

\* The error of Mutate reported as an internal error.
MutateFailedInternal(err) == Errored(StatusInternalServerError, err)

\* handle, lines 193-196: the response when Mutate returned err.
MutateFailed(err) == Errored(StatusBadRequest, err)

\* handle, lines 193-214: Mutate returns, having changed newObj by effect and
\* returning err; the response is built.
MutateReturns(effect, err) ==
    /\ pc = "inMutate"
    /\ err \in MutateErrors(ctxDone)
    /\ newObj' = ApplyEffect(effect, newObj)
    /\ mutErr' = err
    /\ trace' = Append(trace, IF err = NoError THEN "shape" ELSE "failed")
    /\ IF err # NoError
       THEN Respond(MutateFailed(err))
       ELSE Respond(ShapeResponse(m, obj, newObj'))
    /\ UNCHANGED <<req, t, m, obj, oldObj, passedOld, ctxDone>>
    /\ UNCHANGED protos
    /\ UNCHANGED builderVars
    /\ UNCHANGED workers

\* The response is returned to the server; the next request can be handled.
Return ==
    /\ pc = "done"
    /\ pc' = "idle"
    /\ req' = NoRequest
    /\ t' = NoPrototype
    /\ m' = NoMutator
    /\ obj' = NilObject
    /\ oldObj' = NilObject
    /\ newObj' = NilObject
    /\ passedOld' = NilObject
    /\ mutErr' = NoError
    /\ ctxDone' = FALSE
    /\ trace' = << >>
    /\ resp' = NoResponse
    /\ UNCHANGED protos
    /\ UNCHANGED builderVars
    /\ UNCHANGED workers

\* The builder is used before Build only.
Next ==
    \/ built = "no" /\ \E mutator \in Mutators, gotype \in GoTypes :
          WithMutator(mutator, gotype)
    \/ built = "no" /\ \E validator \in Validators, gotype \in GoTypes :
          WithValidator(validator, gotype)
    \/ built = "no" /\ \E predicates \in PredicateLists : WithPredicates(predicates)
    \/ Build
    \/ \E kind \in RequestKinds, raw \in NewRaws, oldRaw \in OldRaws :
          Handle(kind, raw, oldRaw)
    \/ DecodeNew
    \/ DecodeOld
    \/ Filter
    \/ CallMutate
    \/ Cancel
    \/ \E effect \in Effects, err \in MutateErrors(TRUE) : MutateReturns(effect, err)
    \/ Return

Spec == Init /\ [][Next]_vars

\* The builder is used again after Build, between two requests.  The requests
\* are creations (no old object) with well-formed bytes.
NextLate ==
    \/ pc = "idle" /\ \E mutator \in Mutators, gotype \in GoTypes :
          WithMutator(mutator, gotype)
    \/ pc = "idle" /\ \E validator \in Validators, gotype \in GoTypes :
          WithValidator(validator, gotype)
    \/ pc = "idle" /\ \E predicates \in PredicateLists : WithPredicates(predicates)
    \/ Build
    \/ \E kind \in RequestKinds, raw \in NewRaws :
          raw.form = "json" /\ Handle(kind, raw, RawEmpty)
    \/ DecodeNew
    \/ DecodeOld
    \/ Filter
    \/ CallMutate
    \/ Cancel
    \/ \E effect \in Effects, err \in MutateErrors(TRUE) : MutateReturns(effect, err)
    \/ Return

SpecLate == Init /\ [][NextLate]_vars

\* ------------------------------------------------ concurrent invocations
\* The decoded object kept in one place shared by all invocations.
ObjOwnerShared(w) == "w1"

\* handle, line 161: obj is a local of the invocation.
ObjOwner(w) == w

\* The decoded new object the invocation w reads.
ObjOf(w) == workers[ObjOwner(w)].obj

\* The locals after the invocation w stored the decoded new object o.
StoreObj(ws, w, o) == [ws EXCEPT ![ObjOwner(w)].obj = o]

ConcUnchanged ==
    /\ UNCHANGED builderVars
    /\ UNCHANGED requestVars

\* Handle, lines 122-155, in the goroutine w.
ConcHandle(w, kind, raw, oldRaw) ==
    /\ built = "ok"
    /\ workers[w].pc = "idle"
    /\ LET rq == [Kind |-> kind, Raw |-> raw, OldRaw |-> oldRaw]
       IN IF Lookup(h.typesMap, kind) = {} \/ Lookup(h.mutatorMap, kind) = {}
          THEN workers' = [workers EXCEPT ![w].req = rq, ![w].pc = "done",
                   ![w].resp = Errored(StatusBadRequest, "unexpected request kind")]
          ELSE \E tt \in Lookup(h.typesMap, kind), mm \in Lookup(h.mutatorMap, kind) :
                   workers' = [workers EXCEPT ![w].req = rq, ![w].t = tt, ![w].m = mm,
                                              ![w].pc = "decodeNew"]
    /\ UNCHANGED protos
    /\ ConcUnchanged

\* handle, lines 160-173, in the goroutine w.
ConcDecodeNew(w) ==
    /\ workers[w].pc = "decodeNew"
    /\ IF DecodeFails(workers[w].req.Raw)
       THEN workers' = [workers EXCEPT ![w].pc = "done",
                ![w].resp = Errored(StatusBadRequest, "could not decode request")]
       ELSE LET o == Decode(workers[w].req.Raw, DeepCopyPrototype(workers[w].t))
                ws == StoreObj(workers, w, o)
            IN IF AccessorFails(o)
               THEN workers' = [ws EXCEPT ![w].pc = "done",
                        ![w].resp = Errored(StatusBadRequest, "could not get accessor")]
               ELSE workers' = [ws EXCEPT ![w].pc = "decodeOld"]
    /\ protos' = IF DecodeFails(workers[w].req.Raw) THEN protos
                 ELSE WriteThrough(protos, DecodeTarget(workers[w].t),
                          Decode(workers[w].req.Raw, DeepCopyPrototype(workers[w].t)))
    /\ ConcUnchanged

\* handle, lines 175-184, in the goroutine w.
ConcDecodeOld(w) ==
    /\ workers[w].pc = "decodeOld"
    /\ IF HasOldObject(workers[w].req)
       THEN IF DecodeFails(workers[w].req.OldRaw)
            THEN workers' = [workers EXCEPT ![w].pc = "done",
                     ![w].resp = Errored(StatusBadRequest, "could not decode old object")]
            ELSE workers' = [workers EXCEPT ![w].pc = "filter",
                     ![w].oldObj = Decode(workers[w].req.OldRaw,
                                          DeepCopyPrototype(workers[w].t))]
       ELSE workers' = [workers EXCEPT ![w].pc = "filter"]
    /\ protos' = IF HasOldObject(workers[w].req) /\ ~DecodeFails(workers[w].req.OldRaw)
                 THEN WriteThrough(protos, DecodeTarget(workers[w].t),
                          Decode(workers[w].req.OldRaw, DeepCopyPrototype(workers[w].t)))
                 ELSE protos
    /\ ConcUnchanged

\* handle, lines 186-193, in the goroutine w: the predicates, then the clone
\* and the call of Mutate.
ConcFilter(w) ==
    /\ workers[w].pc = "filter"
    /\ IF Exempt(ObjOf(w), h.predicates)
       THEN workers' = [workers EXCEPT ![w].pc = "done", ![w].resp = ValidationResponse]
       ELSE workers' = [workers EXCEPT ![w].pc = "inMutate", ![w].newObj = ObjOf(w)]
    /\ UNCHANGED protos
    /\ ConcUnchanged

\* handle, lines 193-214, in the goroutine w: Mutate returns and the response
\* is built.
ConcMutateReturns(w, effect, err) ==
    /\ workers[w].pc = "inMutate"
    /\ LET n == ApplyEffect(effect, workers[w].newObj)
       IN workers' = [workers EXCEPT
              ![w].pc = "done",
              ![w].newObj = n,
              ![w].effect = effect,
              ![w].mutErr = err,
              ![w].resp = IF err # NoError THEN MutateFailed(err)
                          ELSE ShapeResponse(workers[w].m, ObjOf(w), n)]
    /\ UNCHANGED protos
    /\ ConcUnchanged

\* The goroutine w returns its response and can take another request.
ConcReturn(w) ==
    /\ workers[w].pc = "done"
    /\ workers' = [workers EXCEPT ![w] = IdleWorker]
    /\ UNCHANGED protos
    /\ ConcUnchanged

\* A mutator is registered, then a validator or predicates, Build is called,
\* then the server calls Handle from its goroutines.
NextConc ==
    \/ built = "no" /\ calls = 0 /\ WithMutator(PlainMutator, "WidgetV1")
    \/ built = "no" /\ calls = 1 /\ WithValidator("V1", "WidgetInternal")
    \/ built = "no" /\ calls >= 1 /\ WithPredicates(<<"SizePositive">>)
    \/ Build
    \/ \E w \in Workers, kind \in RequestKinds, raw \in NewRaws, oldRaw \in OldRaws :
          ConcHandle(w, kind, raw, oldRaw)
    \/ \E w \in Workers : ConcDecodeNew(w)
    \/ \E w \in Workers : ConcDecodeOld(w)
    \/ \E w \in Workers : ConcFilter(w)
    \/ \E w \in Workers, effect \in Effects, err \in MutateErrors(FALSE) :
          ConcMutateReturns(w, effect, err)
    \/ \E w \in Workers : ConcReturn(w)

SpecConc == Init /\ [][NextConc]_vars

\* Handle and handle, lines 122-215, for a request handled alone by the
\* handler hd, when Mutate (if called) does effect and returns err.
HandleAlone(hd, rq, effect, err) ==
    IF Lookup(hd.typesMap, rq.Kind) = {} \/ Lookup(hd.mutatorMap, rq.Kind) = {}
    THEN Errored(StatusBadRequest, "unexpected request kind")
    ELSE LET tt == CHOOSE x \in Lookup(hd.typesMap, rq.Kind) : TRUE
             mm == CHOOSE x \in Lookup(hd.mutatorMap, rq.Kind) : TRUE
             o == Decode(rq.Raw, DeepCopyPrototype(tt))
         IN IF DecodeFails(rq.Raw)
            THEN Errored(StatusBadRequest, "could not decode request")
            ELSE IF AccessorFails(o)
            THEN Errored(StatusBadRequest, "could not get accessor")
            ELSE IF HasOldObject(rq) /\ DecodeFails(rq.OldRaw)
            THEN Errored(StatusBadRequest, "could not decode old object")
            ELSE IF Exempt(o, hd.predicates)
            THEN ValidationResponse
            ELSE IF err # NoError
            THEN MutateFailed(err)
            ELSE ShapeResponse(mm, o, ApplyEffect(effect, o))

\* ================================================================= claims
\* The step has been taken for the request being handled.
Reached(step) == \E i \in 1..Len(trace) : trace[i] = step

\* Some predicate of the chain returns false for the decoded new object.
SomePredicateFalse ==
    \E i \in 1..Len(h.predicates) : ~Generic(h.predicates[i], obj)

\* The internal-version identifier of the group and kind of an identifier.
InternalOf(kind) == GVK(kind.Group, APIVersionInternal, kind.Kind)

\* C1: a request whose resolved handler was registered through WithValidator
\* never ends in Allow-with-patch, also when the wrapped validation changed
\* the object it was given: it ends in Allow without patch or in Deny.
C1_ValidatorNeverPatches ==
    ViaValidatorAdapter(m) =>
        /\ ~IsAllowWithPatch(resp)
        /\ resp.patch = NoPatch
        /\ pc = "done" => (IsAllow(resp) \/ IsDeny(resp))

C1_Witness ==
    /\ pc = "done"
    /\ ViaValidatorAdapter(m)
    /\ Reached("shape")
    /\ ~SemanticDeepEqual(obj, newObj)
    /\ IsAllow(resp)

\* C2: when some predicate of the chain returns false for the decoded new
\* object, the request ends at the filter step with Allow and no patch and
\* Mutate is not invoked.
C2_PredicateFalseAllows ==
    (Reached("filter") /\ SomePredicateFalse) =>
        /\ pc = "done"
        /\ resp = ValidationResponse
        /\ ~Reached("mutate")
        /\ newObj = NilObject

C2_Witness ==
    /\ pc = "done"
    /\ Len(h.predicates) = 2
    /\ Generic(h.predicates[1], obj)
    /\ ~Generic(h.predicates[2], obj)
    /\ resp = ValidationResponse

\* C3: for a handler not registered through WithValidator whose Mutate
\* returned nil, with both objects serializable, the response is
\* Allow-with-patch exactly when the clone differs semantically from the
\* decoded object; the patch is the one from the serialized decoded object to
\* the serialized clone and applying it yields the latter; an unchanged object
\* gives Allow without patch.
C3_PatchIffChanged ==
    ( /\ pc = "done"
      /\ Reached("shape")
      /\ ~ViaValidatorAdapter(m)
      /\ ~MarshalFails(obj)
      /\ ~MarshalFails(newObj) ) =>
        /\ IsAllowWithPatch(resp) <=> ~SemanticDeepEqual(obj, newObj)
        /\ IsAllowWithPatch(resp) =>
              /\ resp.patch = CreatePatch(Marshal(obj), Marshal(newObj))
              /\ ApplyPatch(Marshal(obj), resp.patch) = Marshal(newObj)
        /\ newObj = obj => resp = ValidationResponse

\* C4: the flag that suppresses the patch is true exactly for a handler
\* registered through WithValidator; a handler registered through WithMutator
\* is never taken as a validator.
C4_FlagIffViaAdapter ==
    (pc = "done" /\ Reached("shape")) =>
        (IsValidator(m) <=> ViaValidatorAdapter(m))

\* C5: a request whose context was cancelled while its Mutate call was in
\* progress ends in Deny, never in Allow or Allow-with-patch.
C5_CancelledIsDenied ==
    (pc = "done" /\ ctxDone) => IsDeny(resp)

\* The registrations (handler, prototype) that declare the identifier g.
Declaring(g) ==
    { d \in UNION { { [handler |-> k, proto |-> b.mutatorMap[k][i]] :
                        i \in 1..Len(b.mutatorMap[k]) } : k \in DOMAIN b.mutatorMap } :
        SchemeKnows(d.proto.gotype) /\ GVKForObject(d.proto.gotype) = g }

\* The registration of g made by the latest With... call.
LastDeclaring(g) ==
    CHOOSE d \in Declaring(g) : \A e \in Declaring(g) : e.proto.ptr <= d.proto.ptr

AllTypesKnown ==
    \A k \in DOMAIN b.mutatorMap : \A i \in 1..Len(b.mutatorMap[k]) :
        SchemeKnows(b.mutatorMap[k][i].gotype)

\* C6: when an identifier is declared for two different handlers in two
\* registration calls, Build succeeds and the dispatcher routes the identifier
\* to the handler and prototype of the later call.
C6_LastWriteWins ==
    /\ (built # "no" /\ AllTypesKnown) => built = "ok"
    /\ built = "ok" =>
          \A g \in DOMAIN h.mutatorMap :
              (\E d, e \in Declaring(g) : d.handler # e.handler) =>
                  /\ h.mutatorMap[g] = LastDeclaring(g).handler
                  /\ h.typesMap[g] = LastDeclaring(g).proto
                  /\ (pc # "idle" /\ req.Kind = g) =>
                        (m = LastDeclaring(g).handler /\ t = LastDeclaring(g).proto)

\* C7: a request whose identifier has neither an exact entry nor an
\* internal-version entry of its group and kind is denied with 400
\* "unexpected request kind" and nothing is decoded, filtered or mutated.
C7_UnknownKindDenied ==
    ( /\ req # NoRequest
      /\ req.Kind \notin DOMAIN h.mutatorMap
      /\ InternalOf(req.Kind) \notin DOMAIN h.mutatorMap ) =>
        /\ pc = "done"
        /\ resp = Errored(StatusBadRequest, "unexpected request kind")
        /\ trace = <<"resolve">>
        /\ obj = NilObject /\ oldObj = NilObject /\ newObj = NilObject

C7_Witness ==
    /\ pc = "done"
    /\ h.mutatorMap # EmptyMap
    /\ req.Kind \notin DOMAIN h.mutatorMap
    /\ InternalOf(req.Kind) \notin DOMAIN h.mutatorMap
    /\ resp.code = StatusBadRequest

\* C8: when a group and kind is registered only under the internal version, a
\* request for it with a concrete version resolves to the prototype and the
\* handler of the internal-version entry and is not rejected as unknown.
C8_InternalFallback ==
    ( /\ req # NoRequest
      /\ req.Kind \notin DOMAIN h.typesMap
      /\ InternalOf(req.Kind) \in DOMAIN h.typesMap ) =>
        /\ t = h.typesMap[InternalOf(req.Kind)]
        /\ m = h.mutatorMap[InternalOf(req.Kind)]
        /\ Reached("decodeNew") \/ pc = "decodeNew"
        /\ resp.reason # "unexpected request kind"

C8_Witness ==
    /\ pc = "done"
    /\ req.Kind = GVK("apps", "v2", "Widget")
    /\ req.Kind \notin DOMAIN h.typesMap
    /\ t.gotype = "WidgetInternal"
    /\ Reached("shape")
    /\ IsAllowWithPatch(resp)

\* C9: undecodable new-object bytes, or non-empty undecodable old-object
\* bytes, end a resolved request in Deny(400) without Mutate being invoked;
\* the reason is the decode error of the bytes whose decoding failed.
C9_DecodeFailureDenied ==
    (pc = "done" /\ Reached("decodeNew")) =>
        /\ req.Raw.form # "json" =>
              resp = Errored(StatusBadRequest, "could not decode request")
        /\ (Reached("decodeOld") /\ req.OldRaw.form = "malformed") =>
              resp = Errored(StatusBadRequest, "could not decode old object")
        /\ (req.Raw.form # "json" \/ req.OldRaw.form = "malformed") =>
              /\ IsDeny(resp)
              /\ resp.code = StatusBadRequest
              /\ ~Reached("mutate")

C9_Witness ==
    /\ pc = "done"
    /\ req.Raw.form = "json"
    /\ req.OldRaw.form = "malformed"
    /\ resp = Errored(StatusBadRequest, "could not decode old object")

\* C10: when Mutate (or the wrapped Validate) returns an error, the response
\* is Deny with status 400 and that error's message, whatever the handler did
\* to the object before.
C10_MutateErrorDenied ==
    (pc = "done" /\ mutErr # NoError) =>
        /\ resp = Errored(StatusBadRequest, mutErr)
        /\ IsDeny(resp)

C10_Witness ==
    /\ pc = "done"
    /\ mutErr = "invalid size"
    /\ ~SemanticDeepEqual(obj, newObj)
    /\ ~IsValidator(m)
    /\ resp.reason = "invalid size"

\* The Go types declared to the builder that the scheme cannot resolve.
UnknownDeclared ==
    { g \in GoTypes :
        /\ ~SchemeKnows(g)
        /\ \E k \in DOMAIN b.mutatorMap :
              \E i \in 1..Len(b.mutatorMap[k]) : b.mutatorMap[k][i].gotype = g }

\* C11: after a successful Build every identifier of the handler registry
\* has an entry in the type registry.
C11_HandlersHaveTypes ==
    built = "ok" => DOMAIN h.mutatorMap \subseteq DOMAIN h.typesMap

C11_Witness ==
    /\ built = "ok"
    /\ Cardinality(DOMAIN h.mutatorMap) = 2
    /\ Cardinality(DOMAIN b.mutatorMap) = 2

\* C14: when the scheme cannot resolve a declared type of a registered
\* handler, Build fails with an error naming such a type and returns no
\* handler; Build fails for no other reason.
C14_UnresolvedTypeFailsBuild ==
    built # "no" =>
        /\ UnknownDeclared # {} =>
              /\ built = "failed"
              /\ buildErr \in UnknownDeclared
              /\ h = NoHandler
              /\ pc = "idle"
        /\ built = "failed" => UnknownDeclared # {}

C14_Witness ==
    /\ built = "failed"
    /\ buildErr = "Unregistered"
    /\ \E k \in DOMAIN b.mutatorMap :
          \E i \in 1..Len(b.mutatorMap[k]) : SchemeKnows(b.mutatorMap[k][i].gotype)

\* C15: a Deny carries status 500 exactly when serializing the decoded object
\* or the clone for the patch failed; every other Deny carries status 400.
C15_DenyStatus ==
    (pc = "done" /\ IsDeny(resp)) =>
        /\ resp.code \in {StatusBadRequest, StatusInternalServerError}
        /\ resp.code = StatusInternalServerError <=>
              (Reached("shape") /\ (MarshalFails(obj) \/ MarshalFails(newObj)))

C15_Witness ==
    /\ pc = "done"
    /\ IsDeny(resp)
    /\ resp.code = StatusInternalServerError

\* C16: when the registry holds the request's exact identifier and also the
\* internal-version identifier of its group and kind, the request is
\* dispatched to the prototype and handler of the exact entry.
C16_ExactMatchFirst ==
    ( /\ req # NoRequest
      /\ req.Kind \in DOMAIN h.typesMap
      /\ InternalOf(req.Kind) \in DOMAIN h.typesMap ) =>
        /\ t = h.typesMap[req.Kind]
        /\ m = h.mutatorMap[req.Kind]

C16_Witness ==
    /\ pc = "done"
    /\ req.Kind = GVK("apps", "v1", "Widget")
    /\ req.Kind \in DOMAIN h.typesMap
    /\ InternalOf(req.Kind) \in DOMAIN h.typesMap
    /\ h.mutatorMap[InternalOf(req.Kind)] # h.mutatorMap[req.Kind]
    /\ t.gotype = "WidgetV1"
    /\ m = h.mutatorMap[req.Kind]
    /\ Reached("shape")

\* The place of a step in the order of handle.
Rank(step) ==
    CASE step = "resolve"   -> 1
      [] step = "decodeNew" -> 2
      [] step = "decodeOld" -> 3
      [] step = "filter"    -> 4
      [] step = "mutate"    -> 5
      [] OTHER              -> 6

LastStep == trace[Len(trace)]

\* C17: the steps of a request run in the order resolve, decode new, decode
\* old (only for non-empty old bytes), filter, invoke, shape; the step that
\* fails first gives the response; malformed old bytes are denied with 400
\* before any predicate is evaluated; Mutate gets an absent old object exactly
\* when the old bytes are empty.
C17_StepOrder ==
    /\ \A i, j \in 1..Len(trace) : i < j => Rank(trace[i]) < Rank(trace[j])
    /\ \A i \in 1..Len(trace) :
          \A s \in {"resolve", "decodeNew", "filter", "mutate"} :
              Rank(s) < Rank(trace[i]) => Reached(s)
    /\ Reached("decodeOld") <=>
          (req.OldRaw.form # "empty" /\
           (Rank(LastStep) > 3 \/ LastStep = "decodeOld"))
    /\ Reached("filter") => (oldObj = NilObject <=> req.OldRaw.form = "empty")
    /\ Reached("mutate") => (passedOld = NilObject <=> req.OldRaw.form = "empty")
    /\ Reached("mutate") => passedOld = oldObj
    /\ ( /\ pc = "done"
         /\ Reached("decodeNew")
         /\ req.Raw.form = "json"
         /\ ~AccessorFails(obj)
         /\ req.OldRaw.form = "malformed" ) =>
            /\ resp = Errored(StatusBadRequest, "could not decode old object")
            /\ ~Reached("filter")
    /\ pc = "done" =>
          CASE LastStep = "resolve" ->
                  resp = Errored(StatusBadRequest, "unexpected request kind")
            [] LastStep = "decodeNew" ->
                  resp \in { Errored(StatusBadRequest, "could not decode request"),
                             Errored(StatusBadRequest, "could not get accessor") }
            [] LastStep = "decodeOld" ->
                  resp = Errored(StatusBadRequest, "could not decode old object")
            [] LastStep = "filter" -> resp = ValidationResponse
            [] LastStep = "failed" -> resp = Errored(StatusBadRequest, mutErr)
            [] OTHER -> resp.allowed \/ resp.code = StatusInternalServerError

C17_Witness ==
    /\ pc = "done"
    /\ req.OldRaw.form = "malformed"
    /\ SomePredicateFalse
    /\ obj # NilObject
    /\ trace = <<"resolve", "decodeNew", "decodeOld">>
    /\ resp = Errored(StatusBadRequest, "could not decode old object")

\* C18: the prototype and the handler a request resolves to are the entries
\* of one identifier (the request's own or the internal version of its group
\* and kind) and come from one registration; each lookup has at most one
\* possible result.
C18_SameRegistration ==
    /\ \A kind \in RequestKinds :
          /\ Cardinality(Lookup(h.typesMap, kind)) <= 1
          /\ Cardinality(Lookup(h.mutatorMap, kind)) <= 1
    /\ t # NoPrototype =>
          /\ \E g \in {req.Kind, InternalOf(req.Kind)} \cap DOMAIN h.typesMap :
                t = h.typesMap[g] /\ m = h.mutatorMap[g]
          /\ m \in DOMAIN b.mutatorMap
          /\ \E i \in 1..Len(b.mutatorMap[m]) : b.mutatorMap[m][i] = t

C18_Witness ==
    /\ pc = "done"
    /\ req.Kind = GVK("apps", "v2", "Widget")
    /\ Cardinality(DOMAIN b.mutatorMap) = 2
    /\ Cardinality(DOMAIN h.typesMap) = 2
    /\ req.Kind \notin DOMAIN h.typesMap
    /\ InternalOf(req.Kind) \in DOMAIN h.typesMap
    /\ t = h.typesMap[InternalOf(req.Kind)]
    /\ m = h.mutatorMap[InternalOf(req.Kind)]

\* C12: no step of handling a request changes the type registry, the handler
\* registry, the predicate chain or the fields of a registered prototype
\* (both decodes write into a copy); the builder is not touched either.
C12_RegistriesUnchanged ==
    [][ (pc # "idle" \/ pc' # "idle") =>
            /\ h' = h
            /\ protos' = protos
            /\ b' = b ]_vars

C12_Witness ==
    /\ pc = "done"
    /\ Reached("shape")
    /\ obj.size > 0
    /\ ~obj.tags.isNil
    /\ oldObj # NilObject
    /\ protos[t.ptr] = ZeroFields
    /\ req.Kind \in DOMAIN h.typesMap
    /\ h.typesMap[req.Kind] = t

\* C19: With... calls made on the builder after Build change neither the
\* registries of the handler Build returned nor the fields of its prototypes,
\* and the handler goes on resolving requests from its own registries and
\* filtering them with its own predicates.
C19_BuiltHandlerUnaffected ==
    [][ /\ (built = "ok" /\ calls' # calls) =>
              /\ h' = h
              /\ \A p \in DOMAIN protos : protos'[p] = protos[p]
        /\ (pc = "idle" /\ pc' = "decodeNew") =>
              \E g \in {req'.Kind, InternalOf(req'.Kind)} \cap DOMAIN h.typesMap :
                  t' = h.typesMap[g] /\ m' = h.mutatorMap[g]
        /\ (pc = "idle" /\ pc' = "done") =>
              {req'.Kind, InternalOf(req'.Kind)} \cap DOMAIN h.typesMap = {}
        /\ (pc = "filter" /\ pc' = "done") =>
              \E i \in 1..Len(h.predicates) : ~Generic(h.predicates[i], obj)
        /\ (pc = "filter" /\ pc' = "callMutate") =>
              \A i \in 1..Len(h.predicates) : Generic(h.predicates[i], obj) ]_vars

C19_Witness ==
    /\ built = "ok"
    /\ pc = "done"
    /\ Reached("shape")
    /\ h.predicates = << >>
    /\ \E i \in 1..Len(b.predicates) : ~Generic(b.predicates[i], obj)

\* C13: under every interleaving of two Handle invocations on one built
\* handler, each invocation ends with the response its request gets when it
\* is handled alone, and the object it decoded and the clone it passed to
\* Mutate are those of its own request.
C13_ConcurrentAsAlone ==
    \A w \in Workers :
        /\ workers[w].pc = "done" =>
              workers[w].resp =
                  HandleAlone(h, workers[w].req, workers[w].effect, workers[w].mutErr)
        /\ workers[w].pc \in {"decodeOld", "filter", "inMutate"} =>
              workers[w].obj = Decode(workers[w].req.Raw, DeepCopyPrototype(workers[w].t))
        /\ workers[w].pc = "inMutate" => workers[w].newObj = workers[w].obj

C13_Witness ==
    /\ workers["w1"].pc = "done"
    /\ workers["w2"].pc = "done"
    /\ workers["w1"].req.Kind = workers["w2"].req.Kind
    /\ workers["w1"].req.Raw # workers["w2"].req.Raw
    /\ IsAllowWithPatch(workers["w1"].resp)
    /\ IsAllowWithPatch(workers["w2"].resp)
    /\ workers["w1"].resp # workers["w2"].resp

====
